---------------------------- MODULE Spec2Model ----------------------------
(***************************************************************************)
(* Model of the retrieval engine of the PDF question-answering service:    *)
(* PDFProcessor (pdfProcessor.js, src/unnamed/part_000) and the two        *)
(* Express routes of src/server.js that drive it.                          *)
(*                                                                         *)
(* Two specifications share the module:                                    *)
(*   SplitSpec  the loop of splitIntoChunks, one iteration per step, on    *)
(*              every text over Alphabet up to MaxLen characters and every *)
(*              (chunkSize, overlap) up to (MaxChunkSize, MaxOverlap);     *)
(*   Spec       the engine: processPDF invocations, suspended at their     *)
(*              await points, interleaved with queries.                    *)
(*                                                                         *)
(* Texts are sequences of one-character strings; offsets are 0-based as in *)
(* JavaScript, so character j of the source is text[j + 1] here.           *)
(***************************************************************************)
EXTENDS Integers, Sequences, FiniteSets, TLC

\* ------------------------------------------------------------------ bounds

\* Longest text the chunker specification enumerates.
MaxLen == 6
\* Largest chunkSize / overlap argument the chunker specification enumerates.
MaxChunkSize == 5
MaxOverlap == 5
\* Loop iterations of splitIntoChunks followed before the model stops looking
\* (the loop itself has no bound).
MaxIter == 6

\* ------------------------------------------------------- JavaScript strings

NL == "\n"
Whitespace == {" ", NL}
\* The characters of the texts the chunker specification enumerates: a
\* letter, the sentence terminator, and the newline, which is both a break
\* character and whitespace.
Alphabet == {"a", ".", NL}

Max(S) == CHOOSE x \in S : \A y \in S : y <= x
Min2(a, b) == IF a < b THEN a ELSE b
Max2(a, b) == IF a > b THEN a ELSE b

\* String.prototype.lastIndexOf(ch, fromIndex): the greatest 0-based index
\* j <= fromIndex with text[j] = ch, or -1.  fromIndex is clamped to
\* [0, length - 1], so a negative fromIndex still examines index 0.
LastIndexOf(text, ch, fromIndex) ==
  LET from == Min2(Max2(fromIndex, 0), Len(text) - 1)
      hits == {j \in 0..from : text[j + 1] = ch}
  IN  IF hits = {} THEN -1 ELSE Max(hits)

\* String.prototype.slice(start, end): a negative argument counts from the
\* end of the string, both are clamped to [0, length], and the result is
\* empty when the start is not before the end.
SliceIndex(text, k) ==
  IF k < 0 THEN Max2(Len(text) + k, 0) ELSE Min2(k, Len(text))

Slice(text, start, end) ==
  LET from == SliceIndex(text, start)
      to   == SliceIndex(text, end)
  IN  IF from >= to THEN <<>> ELSE SubSeq(text, from + 1, to)

\* String.prototype.trim(): drops leading and trailing whitespace.
Trim(text) ==
  LET keep == {j \in 1..Len(text) : text[j] \notin Whitespace}
  IN  IF keep = {} THEN <<>>
      ELSE SubSeq(text, CHOOSE j \in keep : \A m \in keep : j <= m, Max(keep))

\* ------------------------------------------------------------ the chunker

\* (a break point accepted at the midpoint as well as past it)
ChunkEndAtMidpoint(text, start, chunkSize) ==
  LET end == start + chunkSize
      lastPeriod  == LastIndexOf(text, ".", end)
      lastNewline == LastIndexOf(text, NL, end)
      breakPoint  == Max2(lastPeriod, lastNewline)
  IN  IF end < Len(text) /\ 2 * breakPoint >= 2 * start + chunkSize
      THEN breakPoint + 1
      ELSE end

\* The sentence-boundary search of one loop iteration: the end of the window
\* that starts at `start`.
ChunkEnd(text, start, chunkSize) ==
  LET end == start + chunkSize
      lastPeriod  == LastIndexOf(text, ".", end)
      lastNewline == LastIndexOf(text, NL, end)
      breakPoint  == Max2(lastPeriod, lastNewline)
  IN  IF end < Len(text) /\ 2 * breakPoint > 2 * start + chunkSize
      THEN breakPoint + 1
      ELSE end

\* The cursor after one loop iteration.
\* (a cursor that steps forward by the overlap instead of back)
NextStartForward(text, start, chunkSize, overlap) ==
  ChunkEnd(text, start, chunkSize) + overlap
NextStart(text, start, chunkSize, overlap) ==
  ChunkEnd(text, start, chunkSize) - overlap

\* The chunk list after one loop iteration: the trimmed window is pushed
\* unless it is empty.
PushChunk(chunkList, text, start, chunkSize) ==
  LET chunk == Trim(Slice(text, start, ChunkEnd(text, start, chunkSize)))
  IN  IF Len(chunk) > 0 THEN Append(chunkList, chunk) ELSE chunkList

\* splitIntoChunks as a function, for the callers that run it to completion.
\* It is evaluated only where the loop ends (see SplitSpec for the loop
\* itself).
RECURSIVE SplitFrom(_, _, _, _, _)
SplitFrom(chunkList, text, start, chunkSize, overlap) ==
  IF ~(start < Len(text)) THEN chunkList
  ELSE SplitFrom(PushChunk(chunkList, text, start, chunkSize), text,
                 NextStart(text, start, chunkSize, overlap), chunkSize, overlap)

SplitIntoChunks(text, chunkSize, overlap) ==
  SplitFrom(<<>>, text, 0, chunkSize, overlap)

\* --------------------------------------------------- the embedding model

\* The embedder is a deterministic function from a text to a vector.  The
\* model keeps one coordinate (the code keeps 384) and makes the function
\* injective on the texts it meets, so that a vector identifies the text it
\* was computed from.
Dim == 1

CharCode(c) ==
  CASE c = "a" -> 1 [] c = "b" -> 2 [] c = "." -> 3 [] c = " " -> 4 [] OTHER -> 5

RECURSIVE TextCode(_)
TextCode(text) ==
  IF text = <<>> THEN 0 ELSE CharCode(Head(text)) + 6 * TextCode(Tail(text))

Embed(text) == [d \in 1..Dim |-> TextCode(text)]

\* ------------------------------------------------------ the vector index

RECURSIVE SumSquares(_, _, _)
SumSquares(u, v, d) ==
  IF d = 0 THEN 0 ELSE (u[d] - v[d]) * (u[d] - v[d]) + SumSquares(u, v, d - 1)

\* IndexFlatL2 compares by squared Euclidean distance.
L2Distance(u, v) == SumSquares(u, v, Dim)

\* The distance the index reports for a result slot it could not fill.
PadDistance == 1000000

\* The row at rank r (1 = nearest) of a flat index: rows ordered by
\* ascending distance to the query; equal distances keep row order.
RowAtRank(rows, queryVector, r) ==
  CHOOSE i \in 1..Len(rows) :
    Cardinality({j \in 1..Len(rows) :
        \/ L2Distance(rows[j], queryVector) < L2Distance(rows[i], queryVector)
        \/ /\ L2Distance(rows[j], queryVector) = L2Distance(rows[i], queryVector)
           /\ j < i}) = r - 1

\* IndexFlatL2.search(queryVector, k): k result slots, nearest first, each a
\* 0-based row label with its distance; slots beyond the rows of the index
\* carry the label -1.
FaissSearch(rows, queryVector, k) ==
  [r \in 1..k |->
     IF r <= Len(rows)
     THEN [index    |-> RowAtRank(rows, queryVector, r) - 1,
           distance |-> L2Distance(rows[RowAtRank(rows, queryVector, r)], queryVector)]
     ELSE [index |-> -1, distance |-> PadDistance]]

\* ------------------------------------------------------------- the state

VARIABLES
  \* PDFProcessor fields
  chunks,        \* this.chunks: sequence of chunk texts
  metadata,      \* this.metadata: sequence of metadata records
  faissIndex,    \* this.faissIndex: the rows of the index (null and empty are
                 \* not told apart: every use follows a completed initialize)
  embedder,      \* this.embedder is set
  initialized,   \* this.initialized
  \* processPDF invocations in flight, one per builder
  bpc,           \* where the invocation is suspended
  bText,         \* pdfData.text
  bI,            \* the loop variable i
  bChunk,        \* the chunk handed to the embedder before the await
  bEmbeddings,   \* the local array embeddings
  \* the query in flight
  qpc, qQuery, qK, qVia, qResults,
  \* the value the last step handed back to its caller
  ret,
  \* history
  nBuilds,       \* processPDF invocations started
  bPre,          \* the engine state when the invocation started
  bAlone,        \* no other invocation has overlapped this one
  everBuilt,     \* some processPDF invocation has returned normally
  lastBuildOk,   \* the last processPDF invocation to end returned normally
  \* splitIntoChunks, one loop iteration per step
  sText, sChunkSize, sOverlap, sStart, sChunks, sPc, sIter,
  sWins,         \* history: the window [start, end) of every iteration run
  \* module state of the Netlify function upload-pdf
  upPdfData,     \* pdfData is not null
  upFaissIndex,  \* faissIndex: the rows of the index
  upEmbedder,    \* embedder is not null
  upChunks,      \* chunks
  upMetadata,    \* metadata
  \* the upload-pdf invocation in flight
  upPc,          \* where the handler is suspended
  upMultipart,   \* the request's content type includes multipart/form-data
  upI,           \* the loop variable i
  upEmbeddings,  \* the local array embeddings
  \* module state of the Netlify function query-pdf (faissIndex, embedder
  \* and metadata of that module are never read)
  qpPdfData,     \* pdfData is not null
  qpChunks,      \* chunks
  \* the response the last Netlify handler step returned
  nRet,
  \* history
  nUploads,      \* upload-pdf POST requests started
  everUploaded   \* upload-pdf has answered 200 'PDF processed successfully'

engineVars == <<chunks, metadata, faissIndex, embedder, initialized,
                bpc, bText, bI, bChunk, bEmbeddings,
                qpc, qQuery, qK, qVia, qResults, ret,
                nBuilds, bPre, bAlone, everBuilt, lastBuildOk>>
splitVars  == <<sText, sChunkSize, sOverlap, sStart, sChunks, sPc, sIter, sWins>>
netlifyVars == <<upPdfData, upFaissIndex, upEmbedder, upChunks, upMetadata,
                 upPc, upMultipart, upI, upEmbeddings,
                 qpPdfData, qpChunks, nRet, nUploads, everUploaded>>
vars       == <<engineVars, splitVars, netlifyVars>>

Builders == {1, 2}
NoRet == [op |-> "none"]
NoResponse == [fn |-> "none"]

\* The state after `new PDFProcessor()`, with no request in flight.
EngineInit ==
  /\ chunks = <<>>
  /\ metadata = <<>>
  /\ faissIndex = <<>>
  /\ embedder = FALSE
  /\ initialized = FALSE
  /\ bpc = [b \in Builders |-> "idle"]
  /\ bText = [b \in Builders |-> <<>>]
  /\ bI = [b \in Builders |-> 0]
  /\ bChunk = [b \in Builders |-> <<>>]
  /\ bEmbeddings = [b \in Builders |-> <<>>]
  /\ qpc = "idle"
  /\ qQuery = <<>>
  /\ qK = 0
  /\ qVia = "none"
  /\ qResults = <<>>
  /\ ret = NoRet
  /\ nBuilds = 0
  /\ bPre = [b \in Builders |-> <<>>]
  /\ bAlone = [b \in Builders |-> TRUE]
  /\ everBuilt = FALSE
  /\ lastBuildOk = FALSE

\* splitIntoChunks not running.
SplitOff ==
  /\ sText = <<>>
  /\ sChunkSize = 0
  /\ sOverlap = 0
  /\ sStart = 0
  /\ sChunks = <<>>
  /\ sPc = "off"
  /\ sIter = 0
  /\ sWins = <<>>

\* The two Netlify function modules as loaded: `let pdfData = null`,
\* `let faissIndex = null`, `let embedder = null`, `let chunks = []`,
\* `let metadata = []` in each, and no request in flight.
NetlifyInit ==
  /\ upPdfData = FALSE
  /\ upFaissIndex = <<>>
  /\ upEmbedder = FALSE
  /\ upChunks = <<>>
  /\ upMetadata = <<>>
  /\ upPc = "idle"
  /\ upMultipart = FALSE
  /\ upI = 0
  /\ upEmbeddings = <<>>
  /\ qpPdfData = FALSE
  /\ qpChunks = <<>>
  /\ nRet = NoResponse
  /\ nUploads = 0
  /\ everUploaded = FALSE

\* ----------------------------------------- splitIntoChunks, step by step

Texts == UNION {[1..n -> Alphabet] : n \in 0..MaxLen}

\* A call splitIntoChunks(text, chunkSize, overlap): chunks = [], start = 0.
SplitInit ==
  /\ EngineInit
  /\ NetlifyInit
  /\ sText \in Texts
  /\ sChunkSize \in 1..MaxChunkSize
  /\ sOverlap \in 0..MaxOverlap
  /\ sStart = 0
  /\ sChunks = <<>>
  /\ sPc = "loop"
  /\ sIter = 0
  /\ sWins = <<>>

\* One iteration of `while (start < text.length)`.
SplitIterate ==
  /\ sPc = "loop"
  /\ sStart < Len(sText)
  /\ sIter < MaxIter
  /\ sChunks' = PushChunk(sChunks, sText, sStart, sChunkSize)
  /\ sStart' = NextStart(sText, sStart, sChunkSize, sOverlap)
  /\ sIter' = sIter + 1
  /\ sWins' = Append(sWins, [start   |-> sStart,
                             end     |-> ChunkEnd(sText, sStart, sChunkSize),
                             emitted |-> Len(sChunks') > Len(sChunks)])
  /\ UNCHANGED <<sText, sChunkSize, sOverlap, sPc, engineVars, netlifyVars>>

\* The loop condition fails: `return chunks`.
SplitReturn ==
  /\ sPc = "loop"
  /\ ~(sStart < Len(sText))
  /\ sPc' = "returned"
  /\ UNCHANGED <<sText, sChunkSize, sOverlap, sStart, sChunks, sIter, sWins, engineVars, netlifyVars>>

SplitNext == SplitIterate \/ SplitReturn

SplitSpec == SplitInit /\ [][SplitNext]_vars

\* ------------------------------------------------------------ the engine

\* processPDF invocations the model follows.
MaxBuilds == 2
\* Largest topK a direct searchSimilarChunks call passes.
MaxK == 3

\* The defaults chunkSize = 500 and overlap = 50 of splitIntoChunks and the
\* literal 500 of the metadata offsets, scaled to the texts of the model
\* (overlap stays below half the chunk size, as 50 is below 250).
DefaultChunkSize == 4
DefaultOverlap == 1
MetaStride == 4
\* pageNumber: Math.floor(i / 5) + 1
ChunksPerPage == 5
\* query() asks searchSimilarChunks for 3 chunks.
TopK == 3

\* The texts pdf-parse extracts from the uploaded files: a document of
\* three chunks, one of one chunk, and a blank one.
DocA == <<"a", "a", "b", ".", " ", "b", "b">>
DocB == <<"b", "a">>
DocBlank == <<" ", NL>>
Docs == {DocA, DocB, DocBlank}

\* The query strings of the requests; the empty one is a request without
\* a query.
Queries == {<<>>, <<"a">>}

\* hasDocument() and getChunksCount().
HasDocument == Len(chunks) > 0
\* (a getChunksCount that counts the metadata records instead)
CountMetadata == Len(metadata)
GetChunksCount == Len(chunks)

\* The metadata record processPDF pushes for chunk i of a text.
ChunkMetadata(i, text) ==
  [chunkIndex |-> i,
   startChar  |-> i * MetaStride,
   endChar    |-> Min2((i + 1) * MetaStride, Len(text)),
   pageNumber |-> (i \div ChunksPerPage) + 1]

\* Reading this.metadata[j] past the end of the array gives undefined.
Undefined == [chunkIndex |-> -1, startChar |-> -1, endChar |-> -1, pageNumber |-> -1]
\* (a lookup one record further on)
MetadataAfter(j) == IF j + 2 <= Len(metadata) THEN metadata[j + 2] ELSE Undefined
MetadataAt(j) == IF j + 1 <= Len(metadata) THEN metadata[j + 1] ELSE Undefined

\* similarity: 1 - distances[i]
\* (a conversion with the operands exchanged)
DistanceMinusOne(distance) == distance - 1
Similarity(distance) == 1 - distance

\* The result loop of searchSimilarChunks over the slots the index returned:
\* slots whose label is outside [0, chunks.length) are skipped, the others
\* are pushed in slot order.
RECURSIVE CollectResults(_, _)
CollectResults(hits, i) ==
  IF i > Len(hits) THEN <<>>
  ELSE IF hits[i].index >= 0 /\ hits[i].index < Len(chunks)
       THEN <<[chunk      |-> chunks[hits[i].index + 1],
               metadata   |-> MetadataAt(hits[i].index),
               similarity |-> Similarity(hits[i].distance),
               row        |-> hits[i].index]>>
            \o CollectResults(hits, i + 1)
       ELSE CollectResults(hits, i + 1)

SearchResults(query, topK) ==
  CollectResults(FaissSearch(faissIndex, Embed(query), topK), 1)

\* The responses of the two routes and the value a direct call returns.
\* Besides what the caller receives they record, for the properties, where
\* the invocation stood (stage), whether another upload overlapped it
\* (alone), the engine state when it started (pre), whether an upload was in
\* flight (building) and whether one had ever returned normally (built).
Building == \E b \in Builders : bpc[b] # "idle"
UploadResponse(b, status, text, chunksCount) ==
  [op |-> "upload", status |-> status, chunksCount |-> chunksCount,
   text |-> text, stage |-> bpc[b], alone |-> bAlone[b], pre |-> bPre[b],
   built |-> everBuilt]
QueryError(status, error) ==
  [op |-> "query", status |-> status, error |-> error,
   built |-> everBuilt, building |-> Building]
QueryAnswer(results) ==
  [op |-> "query", status |-> 200, error |-> "",
   built |-> everBuilt, building |-> Building,
   sources |-> results, totalChunks |-> GetChunksCount]
SearchReturn(query, topK, results, searched) ==
  [op |-> "search", query |-> query, topK |-> topK, results |-> results,
   searched |-> searched, building |-> Building]

QueryIdle ==
  /\ qpc' = "idle"
  /\ qQuery' = <<>>
  /\ qK' = 0
  /\ qVia' = "none"
  /\ qResults' = <<>>

BuilderIdle(b) ==
  /\ bpc' = [bpc EXCEPT ![b] = "idle"]
  /\ bText' = [bText EXCEPT ![b] = <<>>]
  /\ bI' = [bI EXCEPT ![b] = 0]
  /\ bChunk' = [bChunk EXCEPT ![b] = <<>>]
  /\ bEmbeddings' = [bEmbeddings EXCEPT ![b] = <<>>]
  /\ bPre' = [bPre EXCEPT ![b] = <<>>]
  /\ bAlone' = [bAlone EXCEPT ![b] = TRUE]

queryVars == <<qpc, qQuery, qK, qVia, qResults>>
fieldVars == <<chunks, metadata, faissIndex, embedder, initialized>>
localVars == <<bText, bI, bChunk, bEmbeddings>>

\* POST /pdf/upload calls processPDF, which calls initialize(): it returns at
\* once when the engine is initialized and awaits the model pipeline
\* otherwise.
ProcessPDF(b) ==
  /\ bpc[b] = "idle"
  /\ nBuilds < MaxBuilds
  /\ nBuilds' = nBuilds + 1
  /\ bpc' = [bpc EXCEPT ![b] = IF initialized THEN "pdf" ELSE "pipeline"]
  /\ bText' = [bText EXCEPT ![b] = <<>>]
  /\ bPre' = [bPre EXCEPT ![b] = <<chunks, metadata, faissIndex>>]
  /\ bAlone' = [o \in Builders |-> \A x \in Builders : bpc[x] = "idle"]
  /\ ret' = NoRet
  /\ UNCHANGED <<fieldVars, bI, bChunk, bEmbeddings, queryVars, everBuilt, lastBuildOk, splitVars, netlifyVars>>

\* The upload fails: processPDF rethrows and the route answers 500.
BuildThrows(b) ==
  /\ BuilderIdle(b)
  /\ ret' = UploadResponse(b, 500, bText[b], 0)
  /\ lastBuildOk' = FALSE
  /\ UNCHANGED <<fieldVars, nBuilds, everBuilt>>

\* processPDF returns normally and the route answers 200 with
\* getChunksCount().
BuildReturns(b, text, chunksCount) ==
  /\ BuilderIdle(b)
  /\ ret' = UploadResponse(b, 200, text, chunksCount)
  /\ everBuilt' = TRUE
  /\ lastBuildOk' = TRUE
  /\ UNCHANGED nBuilds

\* `await pipeline(...)` of initialize() settles.
PipelineSettles(b) ==
  /\ bpc[b] = "pipeline"
  /\ \/ /\ embedder' = TRUE
        /\ faissIndex' = <<>>
        /\ initialized' = TRUE
        /\ bpc' = [bpc EXCEPT ![b] = "pdf"]
        /\ ret' = NoRet
        /\ UNCHANGED <<chunks, metadata, localVars, nBuilds, bPre, bAlone, everBuilt, lastBuildOk>>
     \/ BuildThrows(b)
  /\ UNCHANGED <<queryVars, splitVars, netlifyVars>>

\* `await pdf(dataBuffer)` settles (a readFileSync that throws ends the same
\* way as a parse that rejects).  On success the text is split, this.chunks
\* is replaced, and the embedding loop starts; it is not entered when there
\* is no chunk, and processPDF then returns.
PdfSettles(b) ==
  /\ bpc[b] = "pdf"
  /\ \/ \E text \in Docs :
          LET split == SplitIntoChunks(text, DefaultChunkSize, DefaultOverlap) IN
          /\ chunks' = split
          /\ IF 0 < Len(split)
             THEN /\ bText' = [bText EXCEPT ![b] = text]
                  /\ bI' = [bI EXCEPT ![b] = 0]
                  /\ bChunk' = [bChunk EXCEPT ![b] = split[1]]
                  /\ bEmbeddings' = [bEmbeddings EXCEPT ![b] = <<>>]
                  /\ bpc' = [bpc EXCEPT ![b] = "embedder"]
                  /\ ret' = NoRet
                  /\ UNCHANGED <<nBuilds, bPre, bAlone, everBuilt, lastBuildOk>>
             ELSE BuildReturns(b, text, Len(split))
          /\ UNCHANGED <<metadata, faissIndex, embedder, initialized>>
     \/ BuildThrows(b)
  /\ UNCHANGED <<queryVars, splitVars, netlifyVars>>

\* `await this.embedder(chunk, ...)` of the loop settles.  On success the
\* vector is kept in the local array, a metadata record is pushed onto
\* this.metadata, and the loop goes on while i < this.chunks.length; after
\* the loop the local vectors are added to the index.
EmbedderSettles(b) ==
  /\ bpc[b] = "embedder"
  /\ \/ LET embeddings == Append(bEmbeddings[b], Embed(bChunk[b]))
            i == bI[b] + 1
        IN
        /\ metadata' = Append(metadata, ChunkMetadata(bI[b], bText[b]))
        /\ IF i < Len(chunks)
           THEN /\ bI' = [bI EXCEPT ![b] = i]
                /\ bChunk' = [bChunk EXCEPT ![b] = chunks[i + 1]]
                /\ bEmbeddings' = [bEmbeddings EXCEPT ![b] = embeddings]
                /\ ret' = NoRet
                /\ UNCHANGED <<faissIndex, bpc, bText, nBuilds, bPre, bAlone, everBuilt, lastBuildOk>>
           ELSE /\ faissIndex' = faissIndex \o embeddings
                /\ BuildReturns(b, bText[b], GetChunksCount)
        /\ UNCHANGED <<chunks, embedder, initialized>>
     \/ BuildThrows(b)
  /\ UNCHANGED <<queryVars, splitVars, netlifyVars>>

\* searchSimilarChunks(query, topK) up to its await: it returns [] when the
\* engine is not initialized or holds no chunk, and awaits the embedder
\* otherwise.
SearchStarts(query, topK, via) ==
  IF ~initialized \/ Len(chunks) = 0
  THEN /\ ret' = SearchReturn(query, topK, <<>>, FALSE)
       /\ IF via = "query"
          THEN /\ qpc' = "searched"
               /\ qQuery' = query
               /\ qK' = topK
               /\ qVia' = via
               /\ qResults' = <<>>
          ELSE QueryIdle
  ELSE /\ qpc' = "embedder"
       /\ qQuery' = query
       /\ qK' = topK
       /\ qVia' = via
       /\ qResults' = <<>>
       /\ ret' = NoRet

\* POST /pdf/query: 400 without a query, 400 when hasDocument() is false,
\* and a call of query(), which calls searchSimilarChunks(userQuery, 3),
\* otherwise.
QueryRoute ==
  /\ qpc = "idle"
  /\ \E query \in Queries :
       IF query = <<>>
       THEN /\ ret' = QueryError(400, "Query is required")
            /\ QueryIdle
       ELSE IF ~HasDocument
       THEN /\ ret' = QueryError(400, "No document loaded")
            /\ QueryIdle
       ELSE SearchStarts(query, TopK, "query")
  /\ UNCHANGED <<fieldVars, bpc, localVars, nBuilds, bPre, bAlone, everBuilt, lastBuildOk, splitVars, netlifyVars>>

\* A caller of the class calls searchSimilarChunks(query, topK) itself.
SearchCall ==
  /\ qpc = "idle"
  /\ \E query \in Queries \ {<<>>}, topK \in 1..MaxK :
       SearchStarts(query, topK, "search")
  /\ UNCHANGED <<fieldVars, bpc, localVars, nBuilds, bPre, bAlone, everBuilt, lastBuildOk, splitVars, netlifyVars>>

\* (a catch block that drops the chunk list before it returns [])
SearchSettlesDropping ==
  /\ qpc = "embedder"
  /\ \E threw \in BOOLEAN :
       LET results == IF threw THEN <<>> ELSE SearchResults(qQuery, qK) IN
       /\ ret' = SearchReturn(qQuery, qK, results, ~threw)
       /\ chunks' = IF threw THEN <<>> ELSE chunks
       /\ IF qVia = "query"
          THEN /\ qpc' = "searched"
               /\ qResults' = results
               /\ UNCHANGED <<qQuery, qK, qVia>>
          ELSE QueryIdle
  /\ UNCHANGED <<metadata, faissIndex, embedder, initialized, bpc, localVars,
                 nBuilds, bPre, bAlone, everBuilt, lastBuildOk, splitVars, netlifyVars>>

\* `await this.embedder(query, ...)` of searchSimilarChunks settles: the
\* index is searched and the result loop run, or the embedder or the index
\* throws and the catch block returns [].
SearchSettles ==
  /\ qpc = "embedder"
  /\ \E threw \in BOOLEAN :
       LET results == IF threw THEN <<>> ELSE SearchResults(qQuery, qK) IN
       /\ ret' = SearchReturn(qQuery, qK, results, ~threw)
       /\ IF qVia = "query"
          THEN /\ qpc' = "searched"
               /\ qResults' = results
               /\ UNCHANGED <<qQuery, qK, qVia>>
          ELSE QueryIdle
  /\ UNCHANGED <<fieldVars, bpc, localVars, nBuilds, bPre, bAlone, everBuilt, lastBuildOk, splitVars, netlifyVars>>

\* query() after searchSimilarChunks: it throws 'No relevant chunks found'
\* on an empty result, which the route answers with 500, and awaits
\* queryPerplexity otherwise.
QueryContinues ==
  /\ qpc = "searched"
  /\ IF Len(qResults) = 0
     THEN /\ ret' = QueryError(500, "Failed to process query")
          /\ QueryIdle
     ELSE /\ qpc' = "perplexity"
          /\ ret' = NoRet
          /\ UNCHANGED <<qQuery, qK, qVia, qResults>>
  /\ UNCHANGED <<fieldVars, bpc, localVars, nBuilds, bPre, bAlone, everBuilt, lastBuildOk, splitVars, netlifyVars>>

\* `await this.queryPerplexity(...)` settles: the route answers 200 with the
\* sources, or 500 when the call threw.
PerplexitySettles ==
  /\ qpc = "perplexity"
  /\ \/ ret' = QueryAnswer(qResults)
     \/ ret' = QueryError(500, "Failed to process query")
  /\ QueryIdle
  /\ UNCHANGED <<fieldVars, bpc, localVars, nBuilds, bPre, bAlone, everBuilt, lastBuildOk, splitVars, netlifyVars>>

\* GET /pdf/status: hasDocument() and getChunksCount().
StatusRoute ==
  /\ ret' = [op |-> "status", hasDocument |-> HasDocument,
             chunksCount |-> GetChunksCount]
  /\ UNCHANGED <<fieldVars, bpc, localVars, queryVars,
                 nBuilds, bPre, bAlone, everBuilt, lastBuildOk, splitVars, netlifyVars>>

Init == EngineInit /\ SplitOff /\ NetlifyInit

Next ==
  \/ \E b \in Builders : ProcessPDF(b)
  \/ \E b \in Builders : PipelineSettles(b)
  \/ \E b \in Builders : PdfSettles(b)
  \/ \E b \in Builders : EmbedderSettles(b)
  \/ QueryRoute
  \/ SearchCall
  \/ SearchSettles
  \/ QueryContinues
  \/ PerplexitySettles
  \/ StatusRoute

Spec == Init /\ [][Next]_vars

\* The engine with its uploads served one after the other: processPDF is
\* called only while no other invocation is in flight.  Queries still
\* interleave with the upload at its awaits.
SeqProcessPDF(b) == ~Building /\ ProcessPDF(b)

SeqNext ==
  \/ \E b \in Builders : SeqProcessPDF(b)
  \/ \E b \in Builders : PipelineSettles(b)
  \/ \E b \in Builders : PdfSettles(b)
  \/ \E b \in Builders : EmbedderSettles(b)
  \/ QueryRoute
  \/ SearchCall
  \/ SearchSettles
  \/ QueryContinues
  \/ PerplexitySettles
  \/ StatusRoute

SeqSpec == Init /\ [][SeqNext]_vars

\* ------------------------------------------------ the Netlify functions

MaxUploads == 3

Methods == {"OPTIONS", "POST", "GET"}

\* simulatedPdfText of upload-pdf: a fixed text with whitespace at both
\* ends, short enough for splitIntoChunks to return it as one chunk.
SimulatedPdfText == <<NL, "a", NL>>

\* simulatedSources of query-pdf (similarity in hundredths).
SimulatedSources ==
  <<[rank |-> 1, chunkIndex |-> 0, pageNumber |-> 1, similarity |-> 95],
    [rank |-> 2, chunkIndex |-> 1, pageNumber |-> 1, similarity |-> 87]>>

upStateVars == <<upPdfData, upFaissIndex, upEmbedder, upChunks, upMetadata>>
qpStateVars == <<qpPdfData, qpChunks>>

\* The responses of the two handlers; `uploaded` records, for the
\* properties, whether upload-pdf had answered 200 'PDF processed
\* successfully' when the query was answered.
UploadResult(statusCode, error, message, chunksCount) ==
  [fn |-> "upload-pdf", statusCode |-> statusCode, error |-> error,
   message |-> message, chunksCount |-> chunksCount]
QueryResult(method, statusCode, error, query, sources, totalChunks) ==
  [fn |-> "query-pdf", method |-> method, statusCode |-> statusCode,
   error |-> error, query |-> query, sources |-> sources,
   totalChunks |-> totalChunks, uploaded |-> everUploaded]

UploadIdle ==
  /\ upPc' = "idle"
  /\ upMultipart' = FALSE
  /\ upI' = 0
  /\ upEmbeddings' = <<>>

\* The catch block of the upload-pdf handler.
UploadThrows ==
  /\ UploadIdle
  /\ nRet' = UploadResult(500, "Failed to process PDF", "", 0)
  /\ UNCHANGED <<upStateVars, everUploaded>>

\* upload-pdf once the embedder exists: the content-type test, the split of
\* the simulated text into `chunks`, and the start of the embedding loop;
\* with no chunk the loop and the index are skipped and the handler
\* answers.
UploadParses(multipart) ==
  IF ~multipart
  THEN /\ UploadIdle
       /\ nRet' = UploadResult(400, "Content-Type must be multipart/form-data", "", 0)
       /\ UNCHANGED <<upPdfData, upChunks, upMetadata, everUploaded>>
  ELSE LET split == SplitIntoChunks(SimulatedPdfText, DefaultChunkSize, DefaultOverlap) IN
       /\ upChunks' = split
       /\ IF Len(split) = 0
          THEN /\ upPdfData' = TRUE
               /\ UploadIdle
               /\ nRet' = UploadResult(200, "", "PDF processed successfully", 0)
               /\ everUploaded' = TRUE
               /\ UNCHANGED upMetadata
          ELSE /\ upPc' = "embedder"
               /\ upMultipart' = multipart
               /\ upI' = 0
               /\ upEmbeddings' = <<>>
               /\ nRet' = NoResponse
               /\ UNCHANGED <<upPdfData, upMetadata, everUploaded>>

\* A request reaches the upload-pdf handler: OPTIONS and other non-POST
\* methods are answered at once; a POST awaits the model pipeline when
\* `embedder` is null and goes on otherwise.
UploadPdf ==
  /\ upPc = "idle"
  /\ \E method \in Methods, multipart \in BOOLEAN :
       IF method = "OPTIONS"
       THEN /\ nRet' = UploadResult(200, "", "", 0)
            /\ UNCHANGED <<upStateVars, upPc, upMultipart, upI, upEmbeddings,
                           nUploads, everUploaded>>
       ELSE IF method # "POST"
       THEN /\ nRet' = UploadResult(405, "Method not allowed", "", 0)
            /\ UNCHANGED <<upStateVars, upPc, upMultipart, upI, upEmbeddings,
                           nUploads, everUploaded>>
       ELSE /\ nUploads < MaxUploads
            /\ nUploads' = nUploads + 1
            /\ IF ~upEmbedder
               THEN /\ upPc' = "pipeline"
                    /\ upMultipart' = multipart
                    /\ nRet' = NoResponse
                    /\ UNCHANGED <<upStateVars, upI, upEmbeddings, everUploaded>>
               ELSE /\ UploadParses(multipart)
                    /\ UNCHANGED <<upEmbedder, upFaissIndex>>
  /\ UNCHANGED <<qpStateVars, engineVars, splitVars>>

\* `await pipeline(...)` of upload-pdf settles.
UploadPipelineSettles ==
  /\ upPc = "pipeline"
  /\ \/ /\ upEmbedder' = TRUE
        /\ upFaissIndex' = <<>>
        /\ UploadParses(upMultipart)
     \/ UploadThrows
  /\ UNCHANGED <<nUploads, qpStateVars, engineVars, splitVars>>

\* `await embedder(chunk, ...)` of upload-pdf settles: the embedding and
\* the metadata record are pushed; after the last chunk the embeddings are
\* added to the index, pdfData is set and the handler answers 200.
UploadEmbedderSettles ==
  /\ upPc = "embedder"
  /\ \/ LET embeddings == Append(upEmbeddings, Embed(upChunks[upI + 1]))
            i == upI + 1
        IN  /\ upMetadata' = Append(upMetadata, ChunkMetadata(upI, SimulatedPdfText))
            /\ IF i < Len(upChunks)
               THEN /\ upI' = i
                    /\ upEmbeddings' = embeddings
                    /\ nRet' = NoResponse
                    /\ UNCHANGED <<upPc, upMultipart, upPdfData, upFaissIndex,
                                   everUploaded>>
               ELSE /\ upFaissIndex' = upFaissIndex \o embeddings
                    /\ upPdfData' = TRUE
                    /\ UploadIdle
                    /\ nRet' = UploadResult(200, "", "PDF processed successfully",
                                            Len(upChunks))
                    /\ everUploaded' = TRUE
            /\ UNCHANGED <<upChunks, upEmbedder>>
     \/ UploadThrows
  /\ UNCHANGED <<nUploads, qpStateVars, engineVars, splitVars>>

\* A request reaches the query-pdf handler, which has no await: OPTIONS,
\* other non-POST methods, a body JSON.parse rejects (caught: 500), a
\* missing query, the document test on this module's own pdfData and
\* chunks, and the simulated answer.
QueryPdf ==
  /\ \E method \in Methods, parsed \in BOOLEAN, query \in Queries :
       nRet' =
         IF method = "OPTIONS"
         THEN QueryResult(method, 200, "", <<>>, <<>>, 0)
         ELSE IF method # "POST"
         THEN QueryResult(method, 405, "Method not allowed", <<>>, <<>>, 0)
         ELSE IF ~parsed
         THEN QueryResult(method, 500, "Failed to process query", <<>>, <<>>, 0)
         ELSE IF query = <<>>
         THEN QueryResult(method, 400, "Query is required", query, <<>>, 0)
         ELSE IF ~qpPdfData \/ Len(qpChunks) = 0
         THEN QueryResult(method, 400, "No document loaded", query, <<>>, 0)
         ELSE QueryResult(method, 200, "", query, SimulatedSources, Len(qpChunks))
  /\ UNCHANGED <<upStateVars, upPc, upMultipart, upI, upEmbeddings,
                 qpStateVars, nUploads, everUploaded, engineVars, splitVars>>

NetlifyNext ==
  \/ UploadPdf
  \/ UploadPipelineSettles
  \/ UploadEmbedderSettles
  \/ QueryPdf

NetlifySpec == Init /\ [][NetlifyNext]_vars

\* -------------------------------------------------------------- properties

\* What splitIntoChunks makes of a text with the defaults processPDF uses.
ChunksOf(text) == SplitIntoChunks(text, DefaultChunkSize, DefaultOverlap)

\* An upload that no other upload overlapped has just been answered.
UploadAnswered(status) ==
  ret.op = "upload" /\ ret.status = status /\ ret.alone

\* Chunk list, metadata list and index rows are those of one document:
\* equal lengths, row i the vector of chunk i, record i that of chunk i.
OneGeneration ==
  /\ Len(chunks) = Len(faissIndex)
  /\ Len(chunks) = Len(metadata)
  /\ \A i \in 1..Len(chunks) :
       faissIndex[i] = Embed(chunks[i]) /\ metadata[i].chunkIndex = i - 1

\* C1: whenever processPDF returns successfully (here: for a document with
\* at least one chunk), the number of stored chunks equals the number of
\* vectors in the index and the number of metadata records, on the first
\* build and on every later one.
C1_CountsAgreeAfterBuild ==
  (UploadAnswered(200) /\ ret.chunksCount > 0) =>
    Len(chunks) = Len(faissIndex) /\ Len(chunks) = Len(metadata)

\* C2: a successful build that follows an earlier successful build replaces
\* the index: row i is the embedding of the new chunk i for every i below the
\* chunk count, and no vector of the earlier document remains.
C2_BuildReplacesIndex ==
  (UploadAnswered(200) /\ Len(ret.pre[3]) > 0) =>
    /\ Len(faissIndex) = Len(chunks)
    /\ \A i \in 1..Len(chunks) : faissIndex[i] = Embed(chunks[i])

\* C3: after a successful build of a document of m chunks, whatever number n
\* of chunks the engine held before, getChunksCount() is m (not n + m).
C3_ChunkCountIsNewDocument ==
  UploadAnswered(200) => ret.chunksCount = Len(ChunksOf(ret.text))

\* C3, its case: a document of n >= 1 chunks has been replaced by one of
\* m >= 1 chunks, m # n.
C3_Witness ==
  /\ UploadAnswered(200)
  /\ Len(ret.pre[1]) > 0
  /\ ret.chunksCount > 0
  /\ ret.chunksCount # Len(ret.pre[1])

\* C4: after a build that failed, the engine is in the state it had before
\* the build started or holds no chunk, and the chunk count and the index
\* size agree.
C4_FailedBuildIsAtomic ==
  UploadAnswered(500) =>
    /\ <<chunks, metadata, faissIndex>> = ret.pre \/ Len(chunks) = 0
    /\ Len(chunks) = Len(faissIndex)

\* C5: a search that read the engine while a build was suspended at an await
\* read the chunk list, the metadata list and the index of one document
\* generation.
C5_SearchSeesOneGeneration ==
  (ret.op = "search" /\ ret.searched /\ ret.building) => OneGeneration

\* C6: while no build has ever succeeded (none in flight either), a request
\* with a query is answered 400 'No document loaded'.
C6_NotReadyBeforeAnyBuild ==
  (/\ ret.op = "query"
   /\ ret.error # "Query is required"
   /\ ~ret.built
   /\ ~ret.building) =>
    ret.status = 400 /\ ret.error = "No document loaded"

\* C7: searchSimilarChunks(query, topK) returns at most topK results, in
\* order of non-increasing similarity.
C7_AtMostKDescending ==
  ret.op = "search" =>
    /\ Len(ret.results) <= ret.topK
    /\ \A i, j \in 1..Len(ret.results) :
         i < j => ret.results[i].similarity >= ret.results[j].similarity

\* C7, its case: a search returned two results of different similarity and
\* the result loop skipped a slot of the index.
C7_Witness ==
  /\ ret.op = "search"
  /\ Len(ret.results) >= 2
  /\ ret.results[1].similarity > ret.results[2].similarity
  /\ Len(ret.results) < Min2(ret.topK, Len(faissIndex))
  /\ \E i \in 1..Len(ret.results) - 1 :
       ret.results[i].row + 1 < ret.results[i + 1].row

\* C8: with 0 <= overlap < chunkSize the cursor of splitIntoChunks strictly
\* increases in every loop iteration.
C8_CursorAdvances ==
  [][(SplitIterate /\ sOverlap < sChunkSize) => sStart' > sStart]_vars

\* C9: with overlap >= chunkSize and a non-empty text, a loop iteration that
\* does not advance the cursor ends the call with a configuration error.
C9_StagnationReported ==
  [][(SplitIterate /\ sOverlap >= sChunkSize /\ sStart' <= sStart)
       => sPc' = "ConfigurationError"]_vars

\* C10: a build whose extracted text yields no chunk is answered as a
\* failure, and leaves the engine without chunks, vectors and metadata.
C10_EmptyDocumentRejected ==
  (/\ ret.op = "upload"
   /\ ret.stage \notin {"pipeline", "pdf"} \/ ret.status = 200
   /\ Len(ChunksOf(ret.text)) = 0) =>
    /\ ret.status = 500
    /\ Len(chunks) = 0
    /\ Len(faissIndex) = 0
    /\ Len(metadata) = 0

\* The windows of the iterations that pushed a chunk, in order.
EmittedWins == SelectSeq(sWins, LAMBDA w : w.emitted)

\* The 0-based offsets of the text inside window w.
WindowOffsets(w) == {j \in 0..Len(sText) - 1 : w.start <= j /\ j < w.end}

\* chunk is the text of window w without the whitespace at its two ends.
IsTrimmedWindow(chunk, w) ==
  \E a, b \in WindowOffsets(w) :
    /\ a <= b
    /\ chunk = SubSeq(sText, a + 1, b + 1)
    /\ sText[a + 1] \notin Whitespace
    /\ sText[b + 1] \notin Whitespace
    /\ \A j \in WindowOffsets(w) : (j < a \/ j > b) => sText[j + 1] \in Whitespace

\* The parameters for which the cursor always advances (the defaults 500 and
\* 50 are among them).
OverlapAtMostHalf == 2 * sOverlap <= sChunkSize

RECURSIVE WindowsFrom(_, _, _, _, _)
WindowsFrom(winList, text, start, chunkSize, overlap) ==
  IF ~(start < Len(text)) THEN winList
  ELSE WindowsFrom(
         IF Len(PushChunk(<<>>, text, start, chunkSize)) > 0
         THEN Append(winList, [start |-> start,
                               end   |-> ChunkEnd(text, start, chunkSize)])
         ELSE winList,
         text, NextStart(text, start, chunkSize, overlap), chunkSize, overlap)

WindowsOf(text) == WindowsFrom(<<>>, text, 0, DefaultChunkSize, DefaultOverlap)

\* C12: the offsets recorded for every chunk satisfy startOffset < endOffset
\* and are the window of the source text the chunk was cut from (the end
\* taken no further than the end of the text).  Stated for the first
\* document an engine builds.
C12_OffsetsAreWindow ==
  (UploadAnswered(200) /\ Len(ret.pre[2]) = 0) =>
    \A i \in 1..Len(chunks) :
      /\ metadata[i].startChar < metadata[i].endChar
      /\ metadata[i].startChar = WindowsOf(ret.text)[i].start
      /\ metadata[i].endChar = Min2(WindowsOf(ret.text)[i].end, Len(ret.text))

\* C13: after any sequence of successful and failed builds, the metadata a
\* search returns for the chunk at position i of the chunk list has
\* chunkIndex = i and pageNumber = floor(i / 5) + 1.
C13_MetadataOfPosition ==
  (ret.op = "search" /\ ~ret.building) =>
    \A k \in 1..Len(ret.results) :
      /\ ret.results[k].metadata.chunkIndex = ret.results[k].row
      /\ ret.results[k].metadata.pageNumber =
           (ret.results[k].row \div ChunksPerPage) + 1

\* C14: when the engine holds a successfully built document of n >= 1 chunks,
\* after any sequence of earlier builds, a search for k chunks that does not
\* throw returns exactly min(k, n) results.
C14_ReturnsMinKN ==
  (/\ ret.op = "search"
   /\ ret.searched
   /\ ~ret.building
   /\ lastBuildOk
   /\ Len(chunks) >= 1) =>
    Len(ret.results) = Min2(ret.topK, Len(chunks))

\* C15: two processPDF invocations that overlap in time on a fresh engine
\* and both return successfully, leaving a non-empty chunk list, end in a
\* state where chunks, metadata and index rows come from exactly one of the
\* two documents and have equal length.
C15_OverlappedBuildsOneDocument ==
  (/\ ret.op = "upload"
   /\ ret.status = 200
   /\ ~ret.alone
   /\ ret.built
   /\ nBuilds = 2
   /\ ~Building
   /\ Len(chunks) > 0) =>
    /\ OneGeneration
    /\ \E text \in Docs : chunks = ChunksOf(text)

\* C16: in splitIntoChunks the chosen end of a window never exceeds
\* cursor + chunkSize, and every chunk is at most chunkSize characters long.
C16_EndWithinWindow ==
  /\ \A i \in 1..Len(sWins) : sWins[i].end <= sWins[i].start + sChunkSize
  /\ \A k \in 1..Len(sChunks) : Len(sChunks[k]) <= sChunkSize

\* The last '.' or newline of the text at or before offset pos (an offset
\* below 0 counts as 0), or -1 when there is none.
LastBoundaryUpTo(pos) ==
  Max({-1} \cup {j \in 0..Len(sText) - 1 :
                   j <= Max2(pos, 0) /\ sText[j + 1] \in {".", NL}})

\* The end the midpoint rule prescribes for a window that starts at cursor.
PrescribedEnd(cursor) ==
  LET proposed == cursor + sChunkSize
      boundary == LastBoundaryUpTo(proposed)
  IN  IF proposed >= Len(sText) THEN proposed
      ELSE IF 2 * boundary > 2 * cursor + sChunkSize THEN boundary + 1
      ELSE proposed

\* C17: when the proposed end cursor + chunkSize is before the text end,
\* the window ends just after the last '.' or newline found looking backward
\* from the proposed end if and only if that position is greater than
\* cursor + chunkSize * 0.5, and at the proposed end otherwise; when the
\* proposed end is at or past the text end, the window ends at the proposed
\* end whatever the text holds.
C17_MidpointRule ==
  \A i \in 1..Len(sWins) : sWins[i].end = PrescribedEnd(sWins[i].start)

\* C17, its cases: in one call a window was cut at a boundary away from its
\* proposed end, another kept its proposed end although a boundary lay at
\* or before its midpoint, and another, with a boundary in it, reached the
\* text end.
C17_Witness ==
  /\ OverlapAtMostHalf
  /\ \E i \in 1..Len(sWins) :
       LET proposed == sWins[i].start + sChunkSize
       IN  /\ proposed < Len(sText)
           /\ sWins[i].end = LastBoundaryUpTo(proposed) + 1
           /\ sWins[i].end # proposed
  /\ \E i \in 1..Len(sWins) :
       LET proposed == sWins[i].start + sChunkSize
       IN  /\ proposed < Len(sText)
           /\ LastBoundaryUpTo(proposed) >= sWins[i].start
           /\ sWins[i].end = proposed
           /\ sWins[i].end # LastBoundaryUpTo(proposed) + 1
  /\ \E i \in 1..Len(sWins) :
       /\ sWins[i].start + sChunkSize >= Len(sText)
       /\ LastBoundaryUpTo(Len(sText)) >= sWins[i].start

\* C18: a processPDF call awaits the model pipeline exactly when the engine
\* is not initialized; when the pipeline fails the call is answered with an
\* error at once and chunks, metadata, index and `initialized` are left as
\* they were; and the initialization completes (embedder and a new index
\* are installed) only on an engine that is not initialized yet, so once it
\* has succeeded it is never repeated.
C18_InitializationOnce ==
  [][\A b \in Builders :
       /\ (bpc[b] = "idle" /\ bpc'[b] # "idle") =>
            (bpc'[b] = "pipeline" <=> ~initialized)
       /\ (bpc[b] = "pipeline" /\ bpc'[b] = "idle") =>
            /\ ret'.op = "upload" /\ ret'.status = 500
            /\ UNCHANGED <<chunks, metadata, faissIndex, initialized>>
       /\ (bpc[b] = "pipeline" /\ bpc'[b] = "pdf") => ~initialized]_vars

\* A step of searchSimilarChunks, of query (or of its route), or of the
\* status route.
ReadStep == qpc' # qpc \/ ret'.op \in {"query", "search", "status"}

\* C19: searchSimilarChunks, query, hasDocument and getChunksCount leave
\* chunks, metadata and the vector index unchanged, when they succeed and
\* when the embedder or the index search throws; and a searchSimilarChunks
\* call in which something failed returns the empty list.
C19_ReadOnly ==
  [][ReadStep =>
       /\ UNCHANGED <<chunks, metadata, faissIndex>>
       /\ (ret'.op = "search" /\ ~ret'.searched) => ret'.results = <<>>]_vars

\* C19, its case: on an engine that holds chunks and index rows, the
\* embedder or the index search threw inside searchSimilarChunks.
C19_Witness ==
  /\ ret.op = "search"
  /\ ~ret.searched
  /\ initialized
  /\ Len(chunks) > 0
  /\ Len(faissIndex) > 0
  /\ Len(metadata) > 0

\* C20: in every reachable state, under any interleaving of successful
\* builds, failed builds and queries, the metadata list is at least as long
\* as the vector index, and every result searchSimilarChunks returns has a
\* chunk text and a metadata record that are defined.
C20_MetadataCoversIndex ==
  /\ Len(metadata) >= Len(faissIndex)
  /\ ret.op = "search" =>
       \A k \in 1..Len(ret.results) :
         /\ ret.results[k].metadata # Undefined
         /\ Len(ret.results[k].chunk) > 0

\* C20, its case: a search returned results, with no upload in flight, on
\* an engine whose metadata list, index and chunk list had all come apart.
C20_Witness ==
  /\ ret.op = "search"
  /\ ~ret.building
  /\ ~Building
  /\ Len(ret.results) > 0
  /\ Len(metadata) > Len(faissIndex)
  /\ Len(faissIndex) # Len(chunks)

\* C21: in the Netlify deployment, once the upload-pdf handler has answered
\* 200 'PDF processed successfully', a POST to the query-pdf handler with a
\* non-empty query is answered with status 200 and sources, not with 400
\* 'No document loaded'.
C21_QueryAfterUploadAnswered ==
  (/\ nRet.fn = "query-pdf"
   /\ nRet.method = "POST"
   /\ nRet.query # <<>>
   /\ nRet.uploaded) =>
    /\ nRet.statusCode = 200
    /\ Len(nRet.sources) > 0

=============================================================================
